---- MODULE Spec2Model ----
(***************************************************************************)
(* Model of sim-verilator/TANHFP32.cpp: the valid/ready test driver of the *)
(* TANHFP32 unit (test_special_cases, test_random_cases, main) and the    *)
(* ULP distance compute_ulp.                                               *)
(*                                                                         *)
(* A uint32_t is the pair <<hi, lo>> of its 16-bit halves and a uint64_t   *)
(* the tuple <<w3, w2, w1, w0>> of its 16-bit quarters, most significant   *)
(* first, so that every 32-bit and 64-bit operation of the source is       *)
(* computed exactly with small integers.                                   *)
(***************************************************************************)
EXTENDS Integers, Sequences, FiniteSets, TLC

\* ------------------------------------------------------------------ bounds

\* Length of the special-case run (43 in the source, line 220), scaled.
NSpecial == 3

\* Length of the random run (1000000 in the source, line 110), scaled.
NRandom == 3

\* Number of accepted inputs the unit under test can hold.
QueueCap == 2

\* Bit patterns within MaxDelta of each anchor pattern are compared.
MaxDelta == 2

\* ------------------------------------------------- 32-bit and 64-bit words

\* One 16-bit half of a uint32_t.
Half == 65536

Zero64 == <<0, 0, 0, 0>>

\* (uint64_t)u
ToU64(u) == <<0, 0, u[1], u[2]>>

\* a > b on uint32_t
Gt32(a, b) == a[1] > b[1] \/ (a[1] = b[1] /\ a[2] > b[2])

\* a - b on uint32_t with no borrow from the high half.
Sub32_NoBorrow(a, b) == <<(a[1] - b[1] + Half) % Half, (a[2] - b[2] + Half) % Half>>

\* a - b on uint32_t (modulo 2^32)
Sub32(a, b) ==
  LET lo     == a[2] - b[2]
      borrow == IF lo < 0 THEN 1 ELSE 0
      hi     == a[1] - b[1] - borrow
  IN  <<(hi + Half) % Half, (lo + Half) % Half>>

\* a + b on uint64_t (modulo 2^64)
Add64(a, b) ==
  LET s0 == a[4] + b[4]
      s1 == a[3] + b[3] + (s0 \div Half)
      s2 == a[2] + b[2] + (s1 \div Half)
      s3 == a[1] + b[1] + (s2 \div Half)
  IN  <<s3 % Half, s2 % Half, s1 % Half, s0 % Half>>

\* a > b on uint64_t
Gt64(a, b) ==
  \E i \in 1 .. 4 : a[i] > b[i] /\ \A j \in 1 .. i - 1 : a[j] = b[j]

\* u & 0x7FFFFFFF
MagBits(u) == <<u[1] % 32768, u[2]>>

\* u & 0x80000000
SignMask(u) == <<(u[1] \div 32768) * 32768, 0>>

\* (u >> 31) & 1
SignBit(u) == (u[1] \div 32768) % 2

\* ------------------------------------------------------- float32 classes

\* The 8 exponent bits of a float32 bit pattern.
ExpBits(u) == (u[1] % 32768) \div 128

\* Whether the 23 mantissa bits are all zero.
MantZero(u) == u[1] % 128 = 0 /\ u[2] = 0

\* std::isnan: exponent all ones, mantissa non-zero.
isnan(u) == ExpBits(u) = 255 /\ ~MantZero(u)

\* std::isinf: exponent all ones, mantissa zero.
isinf(u) == ExpBits(u) = 255 /\ MantZero(u)

\* +0.0 or -0.0
IsZero(u) == MagBits(u) = <<0, 0>>

\* g.f == h.f taken as a comparison of the bit patterns.
FloatEq_Bits(g, h) ==
  /\ ~isnan(g)
  /\ ~isnan(h)
  /\ g = h

\* g.f == h.f, the IEEE-754 comparison: false with a NaN operand, true for
\* zeros of either sign, otherwise equality of the bit patterns.
FloatEq(g, h) ==
  /\ ~isnan(g)
  /\ ~isnan(h)
  /\ (g = h \/ (IsZero(g) /\ IsZero(h)))

\* --------------------------------------------------------------- compute_ulp

\* The differing-sign branch with the sign bits left in.
SignCrossing_NoMask(g, h) == Add64(ToU64(g), ToU64(h))

\* The differing-sign branch as the difference of the two magnitudes.
SignCrossing_Difference(g, h) ==
  IF Gt32(MagBits(g), MagBits(h)) THEN ToU64(Sub32(MagBits(g), MagBits(h)))
  ELSE ToU64(Sub32(MagBits(h), MagBits(g)))

\* The differing-sign branch of compute_ulp (lines 97-101).
SignCrossing(g, h) == Add64(ToU64(MagBits(g)), ToU64(MagBits(h)))

\* The same-sign branch as g.u - h.u, whichever is larger.
SameSignDiff_Unordered(g, h) == ToU64(Sub32(g, h))

\* The same-sign branch of compute_ulp (lines 103-106).
SameSignDiff(g, h) ==
  IF Gt32(g, h) THEN ToU64(Sub32(g, h)) ELSE ToU64(Sub32(h, g))

\* compute_ulp without its NaN test.
compute_ulp_NoNaN(golden, hardware) ==
  IF isinf(golden) /\ isinf(hardware)
     /\ SignMask(golden) = SignMask(hardware) THEN Zero64
  ELSE IF FloatEq(golden, hardware) THEN Zero64
  ELSE IF SignBit(golden) # SignBit(hardware)
    THEN Add64(ToU64(MagBits(golden)), ToU64(MagBits(hardware)))
  ELSE IF Gt32(golden, hardware) THEN ToU64(Sub32(golden, hardware))
  ELSE ToU64(Sub32(hardware, golden))

\* The line of the return statement a call of compute_ulp leaves by.
compute_ulp_line(golden, hardware) ==
  IF isnan(golden) /\ isnan(hardware) THEN 87
  ELSE IF isinf(golden) /\ isinf(hardware)
          /\ SignMask(golden) = SignMask(hardware) THEN 90
  ELSE IF FloatEq(golden, hardware) THEN 92
  ELSE IF SignBit(golden) # SignBit(hardware) THEN 100
  ELSE IF Gt32(golden, hardware) THEN 104
  ELSE 106

compute_ulp(golden, hardware) ==
  LET line == compute_ulp_line(golden, hardware)
  IN  IF line \in {87, 90, 92} THEN Zero64
      ELSE IF line = 100 THEN SignCrossing(golden, hardware)
      ELSE SameSignDiff(golden, hardware)

\* ------------------------------------------------------------------ double

(***************************************************************************)
(* A double is a record: k is "nan", "inf", "zero" or "fin", neg its sign  *)
(* bit (FALSE for a NaN), and, for a finite non-zero value, m its 53       *)
(* significand bits, most significant first with m[1] = 1, and e the       *)
(* exponent of m[1]: the value is m * 2^(e - 52). No operation of the      *)
(* source on values that come from a float reaches a subnormal or an       *)
(* overflowing double. Integers too wide for one machine word are          *)
(* sequences of bits, most significant first. The arithmetic is written    *)
(* as functions, whose arguments are evaluated once, before the            *)
(* application.                                                            *)
(***************************************************************************)

Bit == {0, 1}

Bits == Seq(Bit)

Word32 == (0 .. Half - 1) \X (0 .. Half - 1)

Double == [k : {"nan", "inf", "zero", "fin"}, neg : BOOLEAN, e : Int, m : Bits]

Zeros(n) == [i \in 1 .. n |-> 0]

\* The w low bits of the integer n.
BitsOf[n \in Nat, w \in Nat] == [i \in 1 .. w |-> (n \div (2 ^ (w - i))) % 2]

\* The integer of fewer than 31 bits b.
BitsToInt[b \in Bits] ==
  IF b = <<>> THEN 0 ELSE 2 * BitsToInt[SubSeq(b, 1, Len(b) - 1)] + b[Len(b)]

\* b without its leading zeros.
Strip[b \in Bits] ==
  IF \A i \in 1 .. Len(b) : b[i] = 0 THEN <<>>
  ELSE SubSeq(b, CHOOSE i \in 1 .. Len(b) :
                   b[i] = 1 /\ \A j \in 1 .. i - 1 : b[j] = 0, Len(b))

PadLeft[b \in Bits, n \in Nat] == IF Len(b) >= n THEN b ELSE Zeros(n - Len(b)) \o b

\* x + y + carry for x and y of one length, 16 bits at a time from the
\* least significant end; acc is the sum of the bits already added.
AddCarry[x \in Bits, y \in Bits, carry \in Bit, acc \in Bits] ==
  LET n == Len(x)
      w == IF n > 16 THEN 16 ELSE n
      t == BitsToInt[SubSeq(x, n - w + 1, n)] + BitsToInt[SubSeq(y, n - w + 1, n)]
           + carry
  IN  IF n = 0 THEN <<carry>> \o acc
      ELSE AddCarry[SubSeq(x, 1, n - w), SubSeq(y, 1, n - w), t \div (2 ^ w),
                    BitsOf[t % (2 ^ w), w] \o acc]

\* a + b
BAdd[a \in Bits, b \in Bits] ==
  LET n == IF Len(a) > Len(b) THEN Len(a) ELSE Len(b)
  IN  AddCarry[PadLeft[a, n], PadLeft[b, n], 0, <<>>]

\* x - y - borrow for x >= y of one length, 16 bits at a time from the
\* least significant end.
SubBorrow[x \in Bits, y \in Bits, borrow \in Bit, acc \in Bits] ==
  LET n == Len(x)
      w == IF n > 16 THEN 16 ELSE n
      t == BitsToInt[SubSeq(x, n - w + 1, n)] - BitsToInt[SubSeq(y, n - w + 1, n)]
           - borrow
  IN  IF n = 0 THEN acc
      ELSE IF t < 0
        THEN SubBorrow[SubSeq(x, 1, n - w), SubSeq(y, 1, n - w), 1,
                       BitsOf[t + 2 ^ w, w] \o acc]
      ELSE SubBorrow[SubSeq(x, 1, n - w), SubSeq(y, 1, n - w), 0,
                     BitsOf[t, w] \o acc]

\* a - b, for a >= b
BSub[a \in Bits, b \in Bits] ==
  LET n == IF Len(a) > Len(b) THEN Len(a) ELSE Len(b)
  IN  SubBorrow[PadLeft[a, n], PadLeft[b, n], 0, <<>>]

\* x > y for x and y of one length
BitsGt[x \in Bits, y \in Bits] ==
  \E i \in 1 .. Len(x) : x[i] > y[i] /\ \A j \in 1 .. i - 1 : x[j] = y[j]

\* -1, 0 or 1 as a < b, a = b or a > b
BCmp[a \in Bits, b \in Bits] ==
  LET n == IF Len(a) > Len(b) THEN Len(a) ELSE Len(b)
  IN  IF BitsGt[PadLeft[a, n], PadLeft[b, n]] THEN 1
      ELSE IF BitsGt[PadLeft[b, n], PadLeft[a, n]] THEN -1
      ELSE 0

DNaN == [k |-> "nan", neg |-> FALSE, e |-> 0, m |-> <<>>]

DInf(neg) == [k |-> "inf", neg |-> neg, e |-> 0, m |-> <<>>]

DZero(neg) == [k |-> "zero", neg |-> neg, e |-> 0, m |-> <<>>]

DFin(neg, e, m) == [k |-> "fin", neg |-> neg, e |-> e, m |-> m]

\* top + 1 for the 53 bits top, as a double of exponent e when top is one.
RoundUp[neg \in BOOLEAN, inc \in Bits, e \in Int] ==
  IF inc[1] = 1 THEN DFin(neg, e + 1, <<1>> \o Zeros(52))
  ELSE DFin(neg, e, SubSeq(inc, 2, 54))

\* The double nearest to x * 2^lsb (ties to even), for the non-zero integer
\* x given without leading zeros; sticky says that the exact value is
\* above x * 2^lsb by less than 2^lsb.
RoundToDouble[neg \in BOOLEAN, x \in Bits, lsb \in Int, sticky \in BOOLEAN] ==
  LET n == Len(x)
  IN  IF n <= 53 THEN DFin(neg, lsb + n - 1, x \o Zeros(53 - n))
      ELSE IF x[54] = 1 /\ (sticky \/ x[53] = 1 \/ \E i \in 55 .. n : x[i] = 1)
        THEN RoundUp[neg, BAdd[SubSeq(x, 1, 53), <<1>>], lsb + n - 1]
      ELSE DFin(neg, lsb + n - 1, SubSeq(x, 1, 53))

\* (double)f for the float of bit pattern u.
FromFloat[u \in Word32] ==
  LET neg  == SignBit(u) = 1
      ex   == ExpBits(u)
      frac == (u[1] % 128) * Half + u[2]
  IN  IF ex = 255 THEN (IF frac = 0 THEN DInf(neg) ELSE DNaN)
      ELSE IF ex = 0
        THEN (IF frac = 0 THEN DZero(neg)
              ELSE RoundToDouble[neg, Strip[BitsOf[frac, 23]], -149, FALSE])
      ELSE RoundToDouble[neg, BitsOf[8388608 + frac, 24], ex - 150, FALSE]

\* -x
DNeg[x \in Double] == IF x.k = "nan" THEN x ELSE [x EXCEPT !.neg = ~x.neg]

\* fabs(x)
DAbs[x \in Double] == [x EXCEPT !.neg = FALSE]

\* The significand b moved right by n places, a bit lost kept in the last.
ShiftRightSticky[b \in Bits, n \in Nat] ==
  IF n >= Len(b) THEN <<1>>
  ELSE IF \E i \in Len(b) - n + 1 .. Len(b) : b[i] = 1
    THEN SubSeq(b, 1, Len(b) - n - 1) \o <<1>>
  ELSE SubSeq(b, 1, Len(b) - n)

\* xa * 2^lsb + xb * 2^lsb for xa of sign an and xb of sign bn, as c is the
\* order of xa and xb.
AddAligned[an \in BOOLEAN, xa \in Bits, bn \in BOOLEAN, xb \in Bits, lsb \in Int, c \in Int] ==
  IF an = bn THEN RoundToDouble[an, Strip[BAdd[xa, xb]], lsb, FALSE]
  ELSE IF c = 0 THEN DZero(FALSE)
  ELSE IF c > 0 THEN RoundToDouble[an, Strip[BSub[xa, xb]], lsb, FALSE]
  ELSE RoundToDouble[bn, Strip[BSub[xb, xa]], lsb, FALSE]

\* a + b for finite non-zero a, b with a.e >= b.e: exact when the exponents
\* are within 60 of each other, and else b weighs as one bit 60 places
\* below the significand of a.
AddFinite[a \in Double, b \in Double] ==
  LET gap == a.e - b.e
      g   == IF gap > 60 THEN 60 ELSE gap
      xa  == a.m \o Zeros(g)
      xb  == IF gap > 60 THEN ShiftRightSticky[b.m, gap - 60] ELSE b.m
  IN  AddAligned[a.neg, xa, b.neg, xb, a.e - g - 52, BCmp[xa, xb]]

\* a + b
DAdd[a \in Double, b \in Double] ==
  IF a.k = "nan" \/ b.k = "nan" THEN DNaN
  ELSE IF a.k = "inf" /\ b.k = "inf"
    THEN (IF a.neg = b.neg THEN a ELSE DNaN)
  ELSE IF a.k = "inf" THEN a
  ELSE IF b.k = "inf" THEN b
  ELSE IF a.k = "zero" /\ b.k = "zero" THEN DZero(a.neg /\ b.neg)
  ELSE IF a.k = "zero" THEN b
  ELSE IF b.k = "zero" THEN a
  ELSE IF a.e >= b.e THEN AddFinite[a, b]
  ELSE AddFinite[b, a]

\* a - b
DSub[a \in Double, b \in Double] == DAdd[a, DNeg[b]]

\* Long division of the bits num by the integer d, 6 bits at a time, with
\* remainder r and quotient bits acc so far: the quotient bits q and the
\* remainder r left.
DivBits[num \in Bits, d \in Nat, r \in Nat, acc \in Bits] ==
  LET n == Len(num)
      w == IF n > 6 THEN 6 ELSE n
      t == r * (2 ^ w) + BitsToInt[SubSeq(num, 1, w)]
  IN  IF n = 0 THEN [q |-> acc, r |-> r]
      ELSE DivBits[SubSeq(num, w + 1, n), d, t % d, acc \o BitsOf[t \div d, w]]

\* What DivBits returns.
Quotient == [q : Bits, r : Nat]

\* The double nearest to the quotient q.q * 2^lsb, q.r the remainder left.
RoundQuotient[neg \in BOOLEAN, q \in Quotient, lsb \in Int] ==
  RoundToDouble[neg, Strip[q.q], lsb, q.r # 0]

\* a / b for finite non-zero a and b, b a converted float (its significand
\* has 24 bits).
DivFinite[a \in Double, b \in Double] ==
  RoundQuotient[a.neg # b.neg,
                DivBits[a.m \o Zeros(27), BitsToInt[SubSeq(b.m, 1, 24)], 0, <<>>],
                a.e - b.e - 56]

\* a / b, b a converted float
DDiv[a \in Double, b \in Double] ==
  IF a.k = "nan" \/ b.k = "nan" THEN DNaN
  ELSE IF a.k = "inf" THEN (IF b.k = "inf" THEN DNaN ELSE DInf(a.neg # b.neg))
  ELSE IF b.k = "inf" THEN DZero(a.neg # b.neg)
  ELSE IF b.k = "zero" THEN (IF a.k = "zero" THEN DNaN ELSE DInf(a.neg # b.neg))
  ELSE IF a.k = "zero" THEN DZero(a.neg # b.neg)
  ELSE DivFinite[a, b]

\* -1, 0 or 1 as |a| < |b|, |a| = |b| or |a| > |b|, neither a NaN
MagCmp[a \in Double, b \in Double] ==
  LET rank(x) == IF x.k = "zero" THEN 0 ELSE IF x.k = "fin" THEN 1 ELSE 2
  IN  IF rank(a) # rank(b) THEN (IF rank(a) < rank(b) THEN -1 ELSE 1)
      ELSE IF a.k # "fin" THEN 0
      ELSE IF a.e # b.e THEN (IF a.e < b.e THEN -1 ELSE 1)
      ELSE BCmp[a.m, b.m]

\* a < b
DLt[a \in Double, b \in Double] ==
  IF a.k = "nan" \/ b.k = "nan" THEN FALSE
  ELSE LET an == a.neg /\ a.k # "zero"
           bn == b.neg /\ b.k # "zero"
       IN  IF an /\ ~bn THEN TRUE
           ELSE IF ~an /\ bn THEN FALSE
           ELSE IF an THEN MagCmp[a, b] > 0
           ELSE MagCmp[a, b] < 0

\* a == 0.0 never true.
DIsZero_Never(a) == FALSE

\* a == 0.0
DIsZero(a) == a.k = "zero"

\* ------------------------------------------------------- one sample compared

\* The double 1e-4 (0x3F1A36E2EB1C432D), the bound on err in lines 181 and 283.
ErrThreshold ==
  [k |-> "fin", neg |-> FALSE, e |-> -14,
   m |-> <<1, 1, 0, 1, 0, 0, 0, 1, 1, 0, 1, 1, 0, 1, 1, 1, 0, 0,
          0, 1, 0, 1, 1, 1, 0, 1, 0, 1, 1, 0, 0, 0, 1, 1, 1, 0,
          0, 0, 1, 0, 0, 0, 0, 1, 1, 0, 0, 1, 0, 1, 1, 0, 1>>]

\* The bound on ulp in lines 181 and 283.
UlpThreshold == ToU64(<<0, 2>>)

\* 2.0 in the place of 1.0.
DOne_Two == FromFloat[<<16384, 0>>]

\* 1.0
DOne == FromFloat[<<16256, 0>>]

\* Lines 180 and 282: fabs((h - g) / ((g == 0.0 || h == 0.0) ? 1.0 : g)).
RelErr[g \in Double, h \in Double] ==
  DAbs[DDiv[DSub[h, g], IF DIsZero(g) \/ DIsZero(h) THEN DOne ELSE g]]

\* The test of lines 181 and 283 with the bounds et and ut.
Within(e, u, et, ut) == DLt[e, et] /\ ~Gt64(u, ut)

\* Lines 181 and 283: err < 1e-4 && ulp <= 2.
WithinThresholds(e, u) == Within(e, u, ErrThreshold, UlpThreshold)

\* Line 173: std::isnan(g) && std::isnan(h).
BothNaN(g, h) == g.k = "nan" /\ h.k = "nan"

\* Two infinities of one sign only.
BothInf_SameSign(g, h) == g.k = "inf" /\ h.k = "inf" /\ g.neg = h.neg

\* Line 176: std::isinf(g) && std::isinf(h).
BothInf(g, h) == g.k = "inf" /\ h.k = "inf"

\* Lines 167-188 and 270-287: the sample of reference golden and output
\* hardware compared: its ULP distance, its relative error and whether it
\* counts as a pass.
Verdict[golden \in Word32, hardware \in Word32] ==
  LET g == FromFloat[golden]
      h == FromFloat[hardware]
      u == compute_ulp(golden, hardware)
      e == RelErr[g, h]
  IN  IF BothNaN(g, h)
        THEN [ulp |-> u, err |-> DZero(FALSE), pass |-> TRUE]
      ELSE IF BothInf(g, h)
        THEN [ulp |-> u, err |-> DZero(FALSE), pass |-> TRUE]
      ELSE [ulp |-> u, err |-> e, pass |-> WithinThresholds(e, u)]

\* ------------------------------------------------------- float32 patterns

PosZero == <<0, 0>>          \* 0x00000000  0.0f
NegZero == <<32768, 0>>      \* 0x80000000 -0.0f
MinSub  == <<0, 1>>          \* 0x00000001  1e-45f
Carry16 == <<1, 0>>          \* 0x00010000
One     == <<16256, 0>>      \* 0x3F800000  1.0f
NegOne  == <<49024, 0>>      \* 0xBF800000 -1.0f
FltMax  == <<32639, 65535>>  \* 0x7F7FFFFF  FLT_MAX
NegFltMax == <<65407, 65535>>  \* 0xFF7FFFFF -FLT_MAX
PosInf  == <<32640, 0>>      \* 0x7F800000  INFINITY
NegInf  == <<65408, 0>>      \* 0xFF800000 -INFINITY
QNaN    == <<32704, 0>>      \* 0x7FC00000  NAN
NegQNaN == <<65472, 0>>      \* 0xFFC00000
TanhOne    == <<16194, 63446>>  \* 0x3F42F7D6  tanhf(1.0f)
TanhNegOne == <<48962, 63446>>  \* 0xBF42F7D6  tanhf(-1.0f)

\* u + k on uint32_t (modulo 2^32), for a small signed k.
Nudge(u, k) ==
  LET lo == u[2] + k
      c  == IF lo < 0 THEN -1 ELSE lo \div Half
  IN  <<(u[1] + c + Half) % Half, (lo + Half) % Half>>

\* tanhf on the inputs the runs use.
tanh_reference(x) ==
  CASE x = PosZero -> PosZero
    [] x = NegZero -> NegZero
    [] x = MinSub  -> MinSub
    [] x = One     -> TanhOne
    [] x = NegOne  -> TanhNegOne
    [] x = FltMax  -> One
    [] x = NegFltMax -> NegOne
    [] x = PosInf  -> One
    [] x = NegInf  -> NegOne
    [] OTHER       -> x

\* Entries of the special-case table, in the order of the source:
\* vin[0] = 0.0f, vin[18] = NAN, vin[23] = 1e-45f, vin[27] = FLT_MAX,
\* vin[28] = -FLT_MAX.
SpecialTable == <<PosZero, QNaN, MinSub, FltMax, NegFltMax>>

\* Values of ((float)rand() / RAND_MAX) * 10.0 - 1.0 the random run draws from.
RandomInputs == {NegOne, One}

\* -------------------------------------------------------------------- state

VARIABLES
  pc,            \* position of main and of the running test function
  run,           \* "init", "special" or "random": the last test function entered
  vin,           \* vin[0 .. N-1]
  golden,        \* golden[0 .. N-1]
  vout,          \* vout[], defined at the indices written so far
  issued,
  received,
  ulp,           \* the last value of the local ulp
  total_ulp,
  max_ulp,
  err,           \* the last value of the local err
  total_err,
  max_err,
  pass,
  fail,
  io_in_valid,   \* top->io_in_valid
  io_in_bits,    \* top->io_in_bits_in
  io_out_ready,  \* top->io_out_ready
  io_in_ready,   \* top->io_in_ready, as left by the last eval()
  io_out_valid,  \* top->io_out_valid, as left by the last eval()
  io_out_bits,   \* top->io_out_bits_out, as left by the last eval()
  uut_q,         \* the unit's accepted inputs whose output is not yet taken
  uut_acc,       \* inputs the unit accepted since the run began
  out_src,       \* the accepted input whose response is on the output port
  vsrc,          \* vsrc[k]: the accepted input whose response is vout[k]
  cu_golden,     \* compute_ulp called on its own: first argument
  cu_hardware,   \* second argument
  cu_ret,        \* returned value
  cu_line,       \* line of the return statement taken
  cu_err,        \* one sample compared on its own: its relative error
  cu_pass        \* and whether it passes

vars ==
  <<pc, run, vin, golden, vout, issued, received, ulp, total_ulp, max_ulp,
    io_in_valid, io_in_bits,
    io_out_ready, io_in_ready, io_out_valid, io_out_bits, uut_q, uut_acc,
    out_src, vsrc, cu_golden, cu_hardware, cu_ret,
    err, total_err, max_err, pass, fail, cu_line, cu_err, cu_pass>>

ulpVars == <<cu_golden, cu_hardware, cu_ret, cu_line, cu_err, cu_pass>>

statVars == <<err, total_err, max_err, pass, fail>>

\* const int N
N == IF run = "special" THEN NSpecial ELSE IF run = "random" THEN NRandom ELSE 0

EmptyArray == [i \in {} |-> PosZero]

\* No accepted input: the source of an output the unit emits with none pending.
NoEntry == [run |-> "none", idx |-> -1, bits |-> PosZero]

\* The state sim_init leaves: the model's input ports are zero, the unit is
\* reset and holds nothing.
Init ==
  /\ pc = "idle"
  /\ run = "init"
  /\ vin = EmptyArray
  /\ golden = EmptyArray
  /\ vout = EmptyArray
  /\ issued = 0
  /\ received = 0
  /\ ulp = Zero64
  /\ total_ulp = Zero64
  /\ max_ulp = Zero64
  /\ err = DZero(FALSE)
  /\ total_err = DZero(FALSE)
  /\ max_err = DZero(FALSE)
  /\ pass = 0
  /\ fail = 0
  /\ io_in_valid = FALSE
  /\ io_in_bits = PosZero
  /\ io_out_ready = FALSE
  /\ io_in_ready \in BOOLEAN
  /\ io_out_valid = FALSE
  /\ io_out_bits = PosZero
  /\ uut_q = <<>>
  /\ uut_acc = 0
  /\ out_src = NoEntry
  /\ vsrc = EmptyArray
  /\ cu_golden = PosZero
  /\ cu_hardware = PosZero
  /\ cu_ret = Zero64
  /\ cu_line = 0
  /\ cu_err = DZero(FALSE)
  /\ cu_pass = FALSE

\* ------------------------------------------------------------ the test runs

\* The entry of the loop without the store to io_out_ready.
EnterLoop_NoOutReady ==
  /\ issued' = 0
  /\ received' = 0
  /\ io_in_valid' = FALSE
  /\ UNCHANGED io_out_ready

\* The entry of the loop without the store to io_in_valid.
EnterLoop_KeepValid ==
  /\ issued' = 0
  /\ received' = 0
  /\ io_out_ready' = TRUE
  /\ UNCHANGED io_in_valid

\* Lines 141-144 and 242-247: the counters and the two port signals the
\* function sets before its loop.
EnterLoop ==
  /\ issued' = 0
  /\ received' = 0
  /\ io_out_ready' = TRUE
  /\ io_in_valid' = FALSE

\* The entry of a test function up to its loop, with inputs `in`.
RunStart(r, in) ==
  /\ pc' = "loop"
  /\ run' = r
  /\ vin' = in
  /\ golden' = [i \in DOMAIN in |-> tanh_reference(in[i])]
  /\ vout' = EmptyArray
  /\ ulp' = Zero64
  /\ total_ulp' = Zero64
  /\ max_ulp' = Zero64
  /\ err' = DZero(FALSE)
  /\ total_err' = DZero(FALSE)
  /\ max_err' = DZero(FALSE)
  /\ pass' = 0
  /\ fail' = 0
  /\ EnterLoop
  /\ uut_acc' = 0
  /\ vsrc' = EmptyArray
  /\ UNCHANGED <<io_in_bits, io_in_ready, io_out_valid, io_out_bits, uut_q,
                 out_src>>
  /\ UNCHANGED ulpVars

\* main calls test_special_cases (line 315).
StartSpecial ==
  /\ pc = "idle"
  /\ run = "init"
  /\ RunStart("special", [i \in 0 .. NSpecial - 1 |-> SpecialTable[i + 1]])

\* main calls test_random_cases (line 316).
StartRandom ==
  /\ pc = "idle"
  /\ run = "special"
  /\ \E in \in [0 .. NRandom - 1 -> RandomInputs] : RunStart("random", in)

\* The loop running one iteration too many.
LoopCond_OffByOne == received <= N

\* The loop bounded by the inputs issued instead of the outputs received.
LoopCond_Issued == issued < N

\* The loop given up when the unit is not ready and nothing is in flight.
LoopCond_StallExit == received < N /\ (io_in_ready \/ issued > received)

\* while (received < N)
LoopCond == received < N

\* The input presented whether or not the unit is ready.
CanIssue_IgnoreReady == issued < N

\* The input presented whenever the unit is ready, past the end of vin.
CanIssue_NoBound == io_in_ready

\* if (issued < N && top->io_in_ready)
CanIssue == issued < N /\ io_in_ready

\* a[i]; a read outside the array, or of an element never written, gives any
\* value.
Load(a, i) == IF i \in DOMAIN a THEN {a[i]} ELSE {PosZero, QNaN}

\* Lines 145-158 and 248-261: the loop test and the input side of one
\* iteration, up to the clock step. io_in_bits_rm, always written 0, is not
\* part of the state.
Drive ==
  /\ pc = "loop"
  /\ LoopCond
  /\ IF CanIssue
       THEN /\ io_in_bits' \in Load(vin, issued)
            /\ io_in_valid' = TRUE
            /\ issued' = issued + 1
       ELSE /\ io_in_valid' = FALSE
            /\ UNCHANGED <<io_in_bits, issued>>
  /\ pc' = "step"
  /\ UNCHANGED <<run, vin, golden, vout, received, ulp, total_ulp, max_ulp,
                 io_out_ready,
                 io_in_ready, io_out_valid, io_out_bits, uut_q, uut_acc,
                 out_src, vsrc>>
  /\ UNCHANGED ulpVars
  /\ UNCHANGED statVars

\* The loop test fails: the function goes on to print its totals.
LoopExit ==
  /\ pc = "loop"
  /\ ~LoopCond
  /\ pc' = "end"
  /\ UNCHANGED <<run, vin, golden, vout, issued, received, ulp, total_ulp, max_ulp,
                 io_in_valid,
                 io_in_bits, io_out_ready, io_in_ready, io_out_valid,
                 io_out_bits, uut_q, uut_acc, out_src, vsrc>>
  /\ UNCHANGED ulpVars
  /\ UNCHANGED statVars

\* ------------------------------------------------------- the unit under test

\* The outputs the unit may give for an accepted input x: the reference
\* value or a value two representable values above it.
Respond(x) == {tanh_reference(x), Nudge(tanh_reference(x), 2)}

\* The unit's queue after the rising edge: the output on the port is taken
\* when valid and ready are both high, the input when valid and ready are
\* both high.
TakeOut(q) == IF io_out_valid /\ io_out_ready /\ q # <<>> THEN Tail(q) ELSE q

InFire == io_in_valid /\ io_in_ready

TakeIn(q) ==
  IF InFire
    THEN Append(q, [run |-> run, idx |-> uut_acc, bits |-> io_in_bits])
    ELSE q

\* The unit's outputs after the edge, for its new queue q. With `strict` the
\* unit asserts output valid only for an accepted input; without, freely.
UutOutputs(q, strict) ==
  /\ io_in_ready' \in (IF Len(q) < QueueCap THEN BOOLEAN ELSE {FALSE})
  /\ io_out_valid' \in (IF q # <<>> \/ ~strict THEN BOOLEAN ELSE {FALSE})
  /\ IF io_out_valid' /\ q # <<>>
       THEN /\ out_src' = Head(q)
            /\ io_out_bits' \in Respond(Head(q).bits)
       ELSE /\ out_src' = NoEntry
            /\ io_out_bits' = PosZero

\* single_cycle(), lines 24-38: one falling and one rising edge of the clock.
\* The unit's outputs are functions of its registers: they change at the
\* rising edge only, so the input ready the driver sampled is the one the
\* edge sees. cycle_count and the waveform dump, which only the report
\* reads, are not part of the state.
ClockEdge(strict) ==
  /\ pc = "step"
  /\ pc' = "sample"
  /\ uut_q' = TakeIn(TakeOut(uut_q))
  /\ uut_acc' = IF InFire THEN uut_acc + 1 ELSE uut_acc
  /\ UutOutputs(uut_q', strict)
  /\ UNCHANGED <<run, vin, golden, vout, issued, received, ulp, total_ulp, max_ulp,
                 io_in_valid,
                 io_in_bits, io_out_ready, vsrc>>
  /\ UNCHANGED ulpVars
  /\ UNCHANGED statVars

\* The clock step with a unit that emits one output per accepted input.
SingleCycle == ClockEdge(TRUE)

\* The clock step with a unit whose output valid is unconstrained.
SingleCycleAny == ClockEdge(FALSE)

\* ------------------------------------------------------------ the output side

\* vout written at the index of the last input issued.
StoreIndex_Issued == issued - 1

\* The index vout is written at.
StoreIndex == received

\* max_ulp set to the last ulp.
NextMaxUlp_Last(m, u) == u

\* Lines 193-194: if (ulp > max_ulp) max_ulp = ulp.
NextMaxUlp(m, u) == IF Gt64(u, m) THEN u ELSE m

\* Lines 191-192: if (err > max_err) max_err = err.
NextMaxErr(m, e) == IF DLt[m, e] THEN e ELSE m

\* pass++ where the verdict v says so (lines 175, 178, 182).
PassStep(v) == IF v.pass THEN 1 ELSE 0

\* fail++ for every sample.
FailStep_Always(v) == 1

\* fail++ in the else of line 183.
FailStep(v) == IF v.pass THEN 0 ELSE 1

\* Lines 160-197 and 263-297: the output side of one iteration: the output
\* is stored and compared with the golden value, the sample counted as a
\* pass or a fail, and its relative error and ULP distance added to the
\* statistics.
Sample ==
  /\ pc = "sample"
  /\ pc' = "loop"
  /\ IF io_out_valid
       THEN LET stored == [k \in DOMAIN vout \cup {StoreIndex} |->
                            IF k = StoreIndex THEN io_out_bits ELSE vout[k]]
            IN  /\ vout' = stored
                /\ vsrc' = [k \in DOMAIN vsrc \cup {StoreIndex} |->
                              IF k = StoreIndex THEN out_src ELSE vsrc[k]]
                /\ \E g \in Load(golden, received), h \in Load(stored, received) :
                   \E v \in {Verdict[g, h]} :
                         /\ ulp' = v.ulp
                         /\ err' = v.err
                         /\ pass' = pass + PassStep(v)
                         /\ fail' = fail + FailStep(v)
                         /\ total_err' = DAdd[total_err, v.err]
                         /\ total_ulp' = Add64(total_ulp, v.ulp)
                         /\ max_err' = NextMaxErr(max_err, v.err)
                         /\ max_ulp' = NextMaxUlp(max_ulp, v.ulp)
                /\ received' = received + 1
       ELSE /\ UNCHANGED <<vout, vsrc, ulp, total_ulp, max_ulp, received>>
            /\ UNCHANGED statVars
  /\ UNCHANGED <<run, vin, golden, issued, io_in_valid, io_in_bits,
                 io_out_ready, io_in_ready, io_out_valid, io_out_bits, uut_q,
                 uut_acc, out_src>>
  /\ UNCHANGED ulpVars

\* Lines 199-206 and 299-304: the totals are printed, the arrays released,
\* and the function returns to main.
Finish ==
  /\ pc = "end"
  /\ pc' = "idle"
  /\ vin' = EmptyArray
  /\ golden' = EmptyArray
  /\ vout' = EmptyArray
  /\ vsrc' = EmptyArray
  /\ UNCHANGED <<run, issued, received, ulp, total_ulp, max_ulp,
                 io_in_valid, io_in_bits,
                 io_out_ready, io_in_ready, io_out_valid, io_out_bits, uut_q,
                 uut_acc, out_src>>
  /\ UNCHANGED ulpVars
  /\ UNCHANGED statVars

\* Lines 317-319: both functions have returned; sim_exit.
Exit ==
  /\ pc = "idle"
  /\ run = "random"
  /\ pc' = "exit"
  /\ UNCHANGED <<run, vin, golden, vout, issued, received, ulp, total_ulp, max_ulp,
                 io_in_valid,
                 io_in_bits, io_out_ready, io_in_ready, io_out_valid,
                 io_out_bits, uut_q, uut_acc, out_src, vsrc>>
  /\ UNCHANGED ulpVars
  /\ UNCHANGED statVars

Next ==
  \/ StartSpecial
  \/ StartRandom
  \/ Drive
  \/ LoopExit
  \/ SingleCycle
  \/ Sample
  \/ Finish
  \/ Exit

Spec == Init /\ [][Next]_vars

NextAny ==
  \/ StartSpecial
  \/ StartRandom
  \/ Drive
  \/ LoopExit
  \/ SingleCycleAny
  \/ Sample
  \/ Finish
  \/ Exit

\* The runs against a unit that may assert output valid at any time.
SpecAny == Init /\ [][NextAny]_vars


\* ------------------------------------------------- compute_ulp on its own

\* The patterns compute_ulp is called on: every pattern within MaxDelta of
\* a zero, the 16-bit carry, 1.0f, -1.0f, an infinity or a quiet NaN. Those
\* next to the zeros are the subnormals and the NaNs of largest payload,
\* those next to the infinities FLT_MAX and the NaNs of smallest payload.
Anchors ==
  {PosZero, NegZero, Carry16, One, NegOne, PosInf, NegInf, QNaN, NegQNaN}

Patterns == {Nudge(a, k) : a \in Anchors, k \in -MaxDelta .. MaxDelta}

InitUlp ==
  /\ pc = "call"
  /\ run = "init"
  /\ vin = EmptyArray
  /\ golden = EmptyArray
  /\ vout = EmptyArray
  /\ issued = 0
  /\ received = 0
  /\ ulp = Zero64
  /\ total_ulp = Zero64
  /\ max_ulp = Zero64
  /\ err = DZero(FALSE)
  /\ total_err = DZero(FALSE)
  /\ max_err = DZero(FALSE)
  /\ pass = 0
  /\ fail = 0
  /\ io_in_valid = FALSE
  /\ io_in_bits = PosZero
  /\ io_out_ready = FALSE
  /\ io_in_ready = FALSE
  /\ io_out_valid = FALSE
  /\ io_out_bits = PosZero
  /\ uut_q = <<>>
  /\ uut_acc = 0
  /\ out_src = NoEntry
  /\ vsrc = EmptyArray
  /\ cu_golden \in Patterns
  /\ cu_hardware \in Patterns
  /\ cu_ret = Zero64
  /\ cu_line = 0
  /\ cu_err = DZero(FALSE)
  /\ cu_pass = FALSE

\* A call of compute_ulp(cu_golden, cu_hardware), lines 78-107.
CallComputeUlp ==
  /\ pc = "call"
  /\ pc' = "ret"
  /\ cu_ret' = compute_ulp(cu_golden, cu_hardware)
  /\ cu_line' = compute_ulp_line(cu_golden, cu_hardware)
  /\ UNCHANGED <<cu_golden, cu_hardware, cu_err, cu_pass>>
  /\ UNCHANGED statVars
  /\ UNCHANGED <<run, vin, golden, vout, issued, received, ulp, total_ulp, max_ulp,
                 io_in_valid,
                 io_in_bits, io_out_ready, io_in_ready, io_out_valid,
                 io_out_bits, uut_q, uut_acc, out_src, vsrc>>

NextUlp == CallComputeUlp

SpecUlp == InitUlp /\ [][NextUlp]_vars

\* ------------------------------------------------ one sample on its own

\* Lines 167-188 on the reference cu_golden and the output cu_hardware.
CompareSample ==
  /\ pc = "call"
  /\ pc' = "compared"
  /\ \E v \in {Verdict[cu_golden, cu_hardware]} :
         /\ cu_ret' = v.ulp
         /\ cu_err' = v.err
         /\ cu_pass' = v.pass
  /\ cu_line' = compute_ulp_line(cu_golden, cu_hardware)
  /\ UNCHANGED <<cu_golden, cu_hardware>>
  /\ UNCHANGED statVars
  /\ UNCHANGED <<run, vin, golden, vout, issued, received, ulp, total_ulp, max_ulp,
                 io_in_valid,
                 io_in_bits, io_out_ready, io_in_ready, io_out_valid,
                 io_out_bits, uut_q, uut_acc, out_src, vsrc>>

NextSample == CompareSample

SpecSample == InitUlp /\ [][NextSample]_vars


\* The test functions run to completion: main is a sequential program and
\* every step of it that can be taken is taken.
RunSpec == Init /\ [][Next]_vars /\ WF_vars(Next)

\* A clock step after which the unit asserts input ready.
ReadyEdge == SingleCycle /\ io_in_ready'

\* A clock step after which the unit asserts output valid.
ValidEdge == SingleCycle /\ io_out_valid'

\* RunSpec with a unit that does not stall for ever: of the clock steps after
\* which it can assert input ready, or output valid, it does so after some.
LiveSpec == RunSpec /\ SF_vars(ReadyEdge) /\ SF_vars(ValidEdge)

\* ---------------------------------------------------------------- properties

InLoop == pc \in {"loop", "step", "sample"}

\* C1: with an in-order unit that emits one output per accepted input,
\* whatever its stalls and latencies, vout[k] is the unit's response to the
\* k-th input it accepted, that input is vin[k], the outputs recorded are
\* vout[0 .. received-1], and the last one recorded was compared against the
\* golden value of the same index.
C1_OutputMatchesInput ==
  (InLoop \/ pc = "end") =>
    /\ DOMAIN vout = 0 .. received - 1
    /\ \A k \in DOMAIN vout :
         /\ k \in DOMAIN vin
         /\ k \in DOMAIN vsrc
         /\ vsrc[k] = [run |-> run, idx |-> k, bits |-> vin[k]]
         /\ vout[k] \in Respond(vin[k])
    /\ (received > 0 /\ received - 1 \in DOMAIN vout /\ received - 1 \in DOMAIN golden)
         => ulp = compute_ulp(golden[received - 1], vout[received - 1])

\* C1 witness: a finished random run of two different inputs, the first
\* answered exactly and the second not.
C1_Witness ==
  /\ pc = "end"
  /\ run = "random"
  /\ received = N
  /\ vin[0] # vin[1]
  /\ vout[0] = golden[0]
  /\ vout[1] # golden[1]
  /\ ulp # Zero64

\* C2: when the unit does not stall for ever, a loop that has been entered
\* exits, and at its exit exactly N outputs are recorded.
C2_Terminates ==
  (pc = "loop") ~> (pc = "end" /\ received = N /\ DOMAIN vout = 0 .. N - 1)

\* C2 witness: the random run has left its loop with N outputs.
C2_Witness ==
  /\ pc = "end"
  /\ run = "random"
  /\ received = N
  /\ DOMAIN vout = 0 .. N - 1

\* C3: at a clock step input valid is high only if the input ready the
\* driver sampled is high, the inputs issued are those the unit accepted
\* plus the one on the port, an iteration that finds issued = N or input
\* ready low leaves valid low and issued unchanged, and issued grows by one
\* at a time.
C3_ValidOnlyWhenReady ==
  /\ [](pc = "step" =>
          /\ io_in_valid => io_in_ready
          /\ issued = uut_acc + (IF io_in_valid THEN 1 ELSE 0))
  /\ [](pc \in {"loop", "sample", "end"} => issued = uut_acc)
  /\ [][(pc = "loop" /\ pc' = "step" /\ (issued = N \/ ~io_in_ready))
          => (~io_in_valid' /\ issued' = issued)]_vars
  /\ [][pc = "loop" => issued' \in {issued, issued + 1}]_vars

\* C3 witness: a clock step in the middle of a run with input ready low and
\* input valid low.
C3_Witness ==
  /\ pc = "step"
  /\ ~io_in_ready
  /\ ~io_in_valid
  /\ issued > 0
  /\ issued < N

\* C4: with a unit that emits no more outputs than it accepted inputs, the
\* loop has exited only with issued = received = N.
C4_CountsEqualAtExit == pc = "end" => (issued = N /\ received = N)

\* C4 witness: the special-case run has left its loop.
C4_Witness == pc = "end" /\ run = "special" /\ issued = NSpecial

\* C5: whatever the unit does, issued and received stay within 0 .. N, vout
\* is written only at indices below N and the input on the port was read at
\* an index below N.
C5_CountersInRange ==
  /\ issued \in 0 .. N
  /\ received \in 0 .. N
  /\ DOMAIN vout \subseteq 0 .. N - 1
  /\ (pc = "step" /\ io_in_valid) => issued - 1 \in DOMAIN vin

\* C5 witness: a unit that asserted output valid N times and input ready
\* never: the loop has exited with nothing issued.
C5_Witness == pc = "end" /\ received = N /\ issued = 0 /\ N > 0

\* C6: the driver never counts more outputs than it issued inputs.
C6_IssuedAtLeastReceived == issued >= received

C8_OutReadyHeld ==
  /\ []((InLoop \/ pc = "end") => io_out_ready)
  /\ [][io_out_ready => io_out_ready']_vars

\* C8 witness: the first clock step of the first run, output ready high.
C8_Witness ==
  /\ pc = "step"
  /\ run = "special"
  /\ issued = 0
  /\ received = 0
  /\ uut_acc = 0
  /\ io_out_ready

\* r is the sum of the magnitudes g & 0x7FFFFFFF and h & 0x7FFFFFFF as an
\* integer: the sum of the low halves plus 65536 times that of the high ones.
IsMagnitudeSum(r, g, h) ==
  LET sumLo == g[2] + h[2]
      sumHi == (g[1] % 32768) + (h[1] % 32768)
      d     == r[3] - sumHi
  IN  /\ r[1] = 0
      /\ r[2] = 0
      /\ d \in {0, 1}
      /\ d * 65536 + r[4] = sumLo

\* C9 as stated: for patterns of different sign bits, neither of them a zero,
\* compute_ulp returns the sum of the two magnitudes.
C9_AsStated ==
  (/\ pc = "ret"
   /\ SignBit(cu_golden) # SignBit(cu_hardware)
   /\ ~IsZero(cu_golden)
   /\ ~IsZero(cu_hardware))
    => IsMagnitudeSum(cu_ret, cu_golden, cu_hardware)

\* C9: for patterns of different sign bits, both non-zero and not both NaN,
\* compute_ulp returns the sum of the two magnitudes. A pattern counts as
\* non-zero here when it is not 0x00000000, which admits -0.0 as well.
C9_SignCrossingSum ==
  (/\ pc = "ret"
   /\ SignBit(cu_golden) # SignBit(cu_hardware)
   /\ cu_golden # PosZero
   /\ cu_hardware # PosZero
   /\ ~(isnan(cu_golden) /\ isnan(cu_hardware)))
    => IsMagnitudeSum(cu_ret, cu_golden, cu_hardware)

\* C9 witness: +Inf against -Inf, whose distance 0xFF000000 is above 2^31.
C9_Witness ==
  /\ pc = "ret"
  /\ cu_golden = PosInf
  /\ cu_hardware = NegInf
  /\ cu_ret = <<0, 0, 65280, 0>>

\* C10: compute_ulp returns 0 for two NaNs, 0 for two infinities of the same
\* sign, and a non-zero distance for infinities of opposite signs.
C10_NaNAndInf ==
  pc = "ret" =>
    /\ (isnan(cu_golden) /\ isnan(cu_hardware)) => cu_ret = Zero64
    /\ (cu_golden \in {PosInf, NegInf} /\ cu_hardware = cu_golden)
         => cu_ret = Zero64
    /\ (<<cu_golden, cu_hardware>> \in {<<PosInf, NegInf>>, <<NegInf, PosInf>>})
         => cu_ret # Zero64

\* C10 witness: two NaNs of different sign and payload, at distance 0.
C10_Witness ==
  /\ pc = "ret"
  /\ cu_golden = Nudge(PosInf, 1)
  /\ cu_hardware = NegQNaN
  /\ cu_ret = Zero64

\* ------------------------------------------------------------------- C11-C20

\* C11: for +0.0 against -0.0, in either order, compute_ulp returns 0 by
\* the return of the value comparison g.f == h.f (line 92), not by the
\* differing-sign branch, and the relative error of the sample is 0.
C11_SignedZeros ==
  (pc = "compared" /\ {cu_golden, cu_hardware} = {PosZero, NegZero})
    => /\ cu_ret = Zero64
       /\ cu_line = 92
       /\ DIsZero(cu_err)

\* C11 witness: the reference +0.0 compared with the output -0.0.
C11_Witness ==
  /\ pc = "compared"
  /\ cu_golden = PosZero
  /\ cu_hardware = NegZero
  /\ cu_line = 92
  /\ cu_ret = Zero64
  /\ cu_err = DZero(FALSE)

\* C12: a pattern compared with itself, a NaN, an infinity, a zero or a
\* subnormal included, is at ULP distance 0 and has relative error 0.
C12_SelfCompare ==
  (pc = "compared" /\ cu_golden = cu_hardware)
    => /\ cu_ret = Zero64
       /\ cu_err = DZero(FALSE)

\* C12 witness: a quiet NaN, an infinity, the smallest subnormal, a zero
\* or a normal value compared with itself.
C12_Witness ==
  /\ pc = "compared"
  /\ cu_golden \in {QNaN, NegInf, MinSub, NegZero, Nudge(One, 1)}
  /\ cu_hardware = cu_golden
  /\ cu_ret = Zero64
  /\ cu_err = DZero(FALSE)

\* C13: for two patterns of equal sign bits, the ULP distance is the same
\* in both orders of the arguments.
C13_Symmetric ==
  (pc = "ret" /\ SignBit(cu_golden) = SignBit(cu_hardware))
    => cu_ret = compute_ulp(cu_hardware, cu_golden)

\* C13 witness: 1.0 against the second value above it, the smaller first.
C13_Witness ==
  /\ pc = "ret"
  /\ cu_golden = One
  /\ cu_hardware = Nudge(One, 2)
  /\ cu_ret = ToU64(<<0, 2>>)
  /\ compute_ulp(cu_hardware, cu_golden) = ToU64(<<0, 2>>)

\* r is the absolute difference of the 32-bit patterns g and h: the larger
\* pattern is the smaller one plus r.
IsAbsDiff(r, g, h) ==
  /\ r[1] = 0
  /\ r[2] = 0
  /\ IF Gt32(g, h) THEN Add64(ToU64(h), r) = ToU64(g)
     ELSE Add64(ToU64(g), r) = ToU64(h)

\* C14: for two different patterns of equal sign bits, not both NaN,
\* compute_ulp returns the absolute difference of the two patterns as
\* unsigned integers; an output two patterns away from the reference 1.0
\* is at distance 2, passes under the ULP bound 2 and would fail under the
\* ULP bound 1.
C14_SameSignDistance ==
  pc = "compared" =>
    /\ (/\ SignBit(cu_golden) = SignBit(cu_hardware)
        /\ cu_golden # cu_hardware
        /\ ~(isnan(cu_golden) /\ isnan(cu_hardware)))
         => IsAbsDiff(cu_ret, cu_golden, cu_hardware)
    /\ (cu_golden = One /\ cu_hardware \in {Nudge(One, 2), Nudge(One, -2)})
         => /\ cu_ret = ToU64(<<0, 2>>)
            /\ cu_pass
            /\ ~Within(cu_err, cu_ret, ErrThreshold, ToU64(<<0, 1>>))

\* C14 witness: the reference 1.0 and the output 0x3F800002 compared.
C14_Witness ==
  /\ pc = "compared"
  /\ cu_golden = One
  /\ cu_hardware = <<16256, 2>>
  /\ cu_ret = ToU64(<<0, 2>>)
  /\ cu_line = 106
  /\ cu_pass

\* C15: a sample counts as a pass exactly when the reference and the output
\* are both NaN, or both infinite whatever their signs, or its relative
\* error is below 1e-4 and its ULP distance at most 2; +Inf against -Inf
\* passes although its ULP distance is non-zero and above the bound.
C15_PassRule ==
  pc = "compared" =>
    /\ cu_pass <=> \/ isnan(cu_golden) /\ isnan(cu_hardware)
                   \/ isinf(cu_golden) /\ isinf(cu_hardware)
                   \/ Within(cu_err, cu_ret, ErrThreshold, UlpThreshold)
    /\ (<<cu_golden, cu_hardware>> \in {<<PosInf, NegInf>>, <<NegInf, PosInf>>})
         => /\ cu_pass
            /\ cu_ret # Zero64
            /\ Gt64(cu_ret, UlpThreshold)

\* C15 witness: +Inf against -Inf passes at the ULP distance 0xFF000000.
C15_Witness ==
  /\ pc = "compared"
  /\ cu_golden = PosInf
  /\ cu_hardware = NegInf
  /\ cu_pass
  /\ cu_ret = <<0, 0, 65280, 0>>

\* The doubles a and b are the same value: both NaN, both zero, or equal.
DSame(a, b) ==
  \/ a.k = "nan" /\ b.k = "nan"
  \/ a.k = "zero" /\ b.k = "zero"
  \/ a = b

\* |h - g| for the floats g and h, as a double.
AbsDiff(g, h) == DAbs[DSub[FromFloat[h], FromFloat[g]]]

\* C16 as stated: |h - g| when g or h is zero, and else |h - g| divided by
\* the reference g.
C16_AsStated ==
  (/\ pc = "compared"
   /\ ~(isnan(cu_golden) /\ isnan(cu_hardware))
   /\ ~(isinf(cu_golden) /\ isinf(cu_hardware)))
    => DSame(cu_err,
             IF IsZero(cu_golden) \/ IsZero(cu_hardware)
               THEN AbsDiff(cu_golden, cu_hardware)
               ELSE DDiv[AbsDiff(cu_golden, cu_hardware), FromFloat[cu_golden]])

\* C16: for a sample that is neither two NaNs nor two infinities, the
\* relative error is |h - g| when g or h is zero, and else |h - g| divided
\* by the magnitude |g| of the reference.
C16_RelErrByMagnitude ==
  (/\ pc = "compared"
   /\ ~(isnan(cu_golden) /\ isnan(cu_hardware))
   /\ ~(isinf(cu_golden) /\ isinf(cu_hardware)))
    => DSame(cu_err,
             IF IsZero(cu_golden) \/ IsZero(cu_hardware)
               THEN AbsDiff(cu_golden, cu_hardware)
               ELSE DDiv[AbsDiff(cu_golden, cu_hardware),
                         DAbs[FromFloat[cu_golden]]])

\* C16 witness: the reference -1.0 and the output 0xBF800002, whose
\* relative error is 2^-22.
C16_Witness ==
  /\ pc = "compared"
  /\ cu_golden = NegOne
  /\ cu_hardware = <<49024, 2>>
  /\ cu_err = DFin(FALSE, -22, <<1>> \o Zeros(52))

RECURSIVE SumUlp(_)
\* The sum of compute_ulp over the samples 0 .. k - 1.
SumUlp(k) ==
  IF k = 0 THEN Zero64
  ELSE Add64(SumUlp(k - 1), compute_ulp(golden[k - 1], vout[k - 1]))

\* m is the largest of compute_ulp over the samples 0 .. k - 1, 0 for none.
IsMaxUlp(m, k) ==
  /\ \A i \in 0 .. k - 1 : ~Gt64(compute_ulp(golden[i], vout[i]), m)
  /\ IF k = 0 THEN m = Zero64
     ELSE \E i \in 0 .. k - 1 : compute_ulp(golden[i], vout[i]) = m

\* C17: in a run, total_ulp is the sum and max_ulp the maximum of
\* compute_ulp over all the samples recorded so far, those counted as a
\* pass for being two NaNs or two infinities included, and neither max_ulp
\* nor max_err ever decreases.
C17_UlpStatistics ==
  /\ [](InLoop \/ pc = "end" => /\ total_ulp = SumUlp(received)
                                /\ IsMaxUlp(max_ulp, received))
  /\ [][run' = run => /\ ~Gt64(max_ulp, max_ulp')
                      /\ ~DLt[max_err', max_err]]_vars

\* C17 witness: the special run has recorded three samples at the ULP
\* distances 2, 0 (two NaNs) and 2; the largest relative error is 2.0, of
\* 3 * 2^-149 against the reference 2^-149.
C17_Witness ==
  /\ pc = "end"
  /\ run = "special"
  /\ received = 3
  /\ isnan(golden[1])
  /\ isnan(vout[1])
  /\ total_ulp = ToU64(<<0, 4>>)
  /\ max_ulp = ToU64(<<0, 2>>)
  /\ max_err = DFin(FALSE, 1, <<1>> \o Zeros(52))

\* C18: at every boundary between two iterations of the loop and at its
\* exit, pass + fail = received; at the exit this is N.
C18_PassPlusFail ==
  /\ pc \in {"loop", "end"} => pass + fail = received
  /\ pc = "end" => pass + fail = N

\* C18 witness: the special run leaves its loop with two passes and one
\* fail, the output 3 * 2^-149 for the reference 2^-149.
C18_Witness ==
  /\ pc = "end"
  /\ run = "special"
  /\ received = N
  /\ pass = 2
  /\ fail = 1

\* C19: compute_ulp returns 0 only for two NaNs and for two values that
\* compare equal, the same pattern or +0.0 against -0.0; for every other
\* pair, a NaN against a non-NaN included, it returns a positive distance.
C19_ZeroOnlyWhenEqual ==
  pc = "ret" =>
    (cu_ret = Zero64 <=> \/ isnan(cu_golden) /\ isnan(cu_hardware)
                         \/ cu_golden = cu_hardware
                         \/ {cu_golden, cu_hardware} = {PosZero, NegZero})

\* C19 witness: a quiet NaN against +Inf, at distance 0x00400000.
C19_Witness ==
  /\ pc = "ret"
  /\ cu_golden = QNaN
  /\ cu_hardware = PosInf
  /\ cu_ret = <<0, 0, 64, 0>>

\* C20: test_random_cases follows test_special_cases on the same unit with
\* no reset between them. Input valid is low when the second function
\* reaches its loop, and at each of its clock steps an asserted input valid
\* carries an input of the second function. Every output the second
\* function records is the unit's response to an input the unit accepted
\* during the second function. The only input of the first function the
\* unit still holds is its last one, whose output the first function has
\* recorded and which stays on the port until the first clock step of the
\* second function takes it: no input of the first function waits for its
\* output.
C20_RunsDoNotMix ==
  /\ [][(run = "special" /\ run' = "random") => ~io_in_valid']_vars
  /\ [](run = "random" =>
          /\ (pc = "step" /\ io_in_valid)
               => (issued > 0 /\ io_in_bits = vin[issued - 1])
          /\ \A k \in DOMAIN vsrc : vsrc[k].run = "random"
          /\ \A i \in 1 .. Len(uut_q) :
               uut_q[i].run = "special"
                 => /\ i = 1
                    /\ pc \in {"loop", "step"}
                    /\ received = 0
                    /\ io_out_valid
                    /\ out_src = uut_q[1]
                    /\ uut_q[1].idx = NSpecial - 1)

\* C20 witness: the second function has taken one clock step; the unit,
\* which held the last input of the first function until that step, has
\* accepted the first input of the second function and its response is
\* recorded in vout[0].
C20_Witness ==
  /\ run = "random"
  /\ pc = "loop"
  /\ issued = 1
  /\ received = 1
  /\ uut_acc = 1
  /\ vsrc[0] = [run |-> "random", idx |-> 0, bits |-> vin[0]]
  /\ vout[0] \in Respond(vin[0])
  /\ \A i \in 1 .. Len(uut_q) : uut_q[i].run = "random"


====
